---- MODULE Spec2Model ----
(***************************************************************************)
(* A model of the Janggi rules engine of src/JanggiGame.py: the GameBoard,  *)
(* the Players with their rosters, the move ranges of the seven ranks and  *)
(* JanggiGame.make_move with its self-check simulation and its checkmate   *)
(* evaluation.                                                             *)
(***************************************************************************)
EXTENDS Integers, Sequences, FiniteSets, TLC

VARIABLES
    spaces,            \* GameBoard._spaces: coordinate -> occupying piece or None
    available_spaces,  \* GameBoard._available_spaces
    pieces,            \* Player._pieces, per color: the roster, in list order
    occupied_spaces,   \* Player._occupied_spaces, per color
    position,          \* BoardPiece._position, per piece
    is_in_check,       \* General._is_in_check, per color of the General
    game_state,        \* JanggiGame._game_state
    turn_counter,      \* JanggiGame._turn_counter
    call               \* the last make_move call: its arguments and its outcome

gamevars == <<spaces, available_spaces, pieces, occupied_spaces, position,
              is_in_check, game_state, turn_counter>>

vars == <<spaces, available_spaces, pieces, occupied_spaces, position,
          is_in_check, game_state, turn_counter, call>>

----------------------------------------------------------------------------
(* Bounds of the exploration *)

MaxTurns == 16

MaxOpeningTurns == 9

MaxDrawn == 3

MaxProbeTurns == 1

----------------------------------------------------------------------------
(* GameBoard geometry *)

x_length == 9

y_length == 10

None == 0

IndexError == -1

all_spaces == (0 .. x_length - 1) \X (0 .. y_length - 1)

palace_spaces == ((3 .. 5) \X (7 .. 9)) \cup ((3 .. 5) \X (0 .. 2))

(* The counter of GameBoard.__init__ runs over the nine cells of a zone,   *)
(* column by column, and every cell met at an even count is a diagonal.    *)
palace_counter(coord, first_row) == (coord[1] - 3) * 3 + (coord[2] - first_row)

(* The diagonals with the cells met at an odd count instead *)
palace_diagonals_odd_count ==
    {c \in (3 .. 5) \X (7 .. 9) : palace_counter(c, 7) % 2 = 1}
    \cup {c \in (3 .. 5) \X (0 .. 2) : palace_counter(c, 0) % 2 = 1}

palace_diagonals ==
    {c \in (3 .. 5) \X (7 .. 9) : palace_counter(c, 7) % 2 = 0}
    \cup {c \in (3 .. 5) \X (0 .. 2) : palace_counter(c, 0) % 2 = 0}

----------------------------------------------------------------------------
(* Pieces.  A piece is named by its place in the creation order of         *)
(* Player.__init__: 1..16 are Blue's, 17..32 are Red's.                    *)

Colors == {"blue", "red"}

PieceIds == 1 .. 32

RankOrder ==
    <<"General", "Guard", "Guard", "Horse", "Horse", "Elephant", "Elephant",
      "Chariot", "Chariot", "Cannon", "Cannon",
      "Soldier", "Soldier", "Soldier", "Soldier", "Soldier">>

Rank(p) == RankOrder[((p - 1) % 16) + 1]

Color(p) == IF p <= 16 THEN "blue" ELSE "red"

get_opponent_color(color) == IF color = "blue" THEN "red" ELSE "blue"

(* Blue's starting cells with the General on the back row and the Guards   *)
(* in front of it                                                          *)
BlueStart_general_on_back_row ==
    <<<<4, 9>>, <<3, 8>>, <<5, 8>>, <<2, 9>>, <<7, 9>>, <<1, 9>>, <<6, 9>>,
      <<0, 9>>, <<8, 9>>, <<1, 7>>, <<7, 7>>,
      <<0, 6>>, <<2, 6>>, <<4, 6>>, <<6, 6>>, <<8, 6>>>>

BlueStart ==
    <<<<4, 8>>, <<3, 9>>, <<5, 9>>, <<2, 9>>, <<7, 9>>, <<1, 9>>, <<6, 9>>,
      <<0, 9>>, <<8, 9>>, <<1, 7>>, <<7, 7>>,
      <<0, 6>>, <<2, 6>>, <<4, 6>>, <<6, 6>>, <<8, 6>>>>

RedStart ==
    <<<<4, 1>>, <<3, 0>>, <<5, 0>>, <<2, 0>>, <<7, 0>>, <<1, 0>>, <<6, 0>>,
      <<0, 0>>, <<8, 0>>, <<1, 2>>, <<7, 2>>,
      <<0, 3>>, <<2, 3>>, <<4, 3>>, <<6, 3>>, <<8, 3>>>>

StartPosition(p) == IF p <= 16 THEN BlueStart[p] ELSE RedStart[p - 16]

StartRoster(color) ==
    IF color = "blue" THEN [i \in 1 .. 16 |-> i] ELSE [i \in 1 .. 16 |-> i + 16]

SeqToSet(s) == {s[i] : i \in 1 .. Len(s)}

RemoveFromSeq(s, v) == SelectSeq(s, LAMBDA e : e # v)

Abs(n) == IF n < 0 THEN -n ELSE n

Max(S) == CHOOSE m \in S : \A n \in S : n <= m

Min(S) == CHOOSE m \in S : \A n \in S : m <= n

----------------------------------------------------------------------------
(* A game value: the fields of a JanggiGame with its board and players.    *)
(* copy.deepcopy of a game is the same value; a simulation works on it and *)
(* the game it was copied from is left as it was.                          *)

self ==
    [spaces |-> spaces, available_spaces |-> available_spaces,
     pieces |-> pieces, occupied_spaces |-> occupied_spaces,
     position |-> position, is_in_check |-> is_in_check,
     game_state |-> game_state, turn_counter |-> turn_counter]

NewGame ==
    [spaces |-> [c \in all_spaces |->
                    IF \E p \in PieceIds : StartPosition(p) = c
                    THEN CHOOSE p \in PieceIds : StartPosition(p) = c
                    ELSE None],
     available_spaces |-> all_spaces \ {StartPosition(p) : p \in PieceIds},
     pieces |-> [color \in Colors |-> StartRoster(color)],
     occupied_spaces |-> [color \in Colors |->
                            {StartPosition(p) : p \in SeqToSet(StartRoster(color))}],
     position |-> [p \in PieceIds |-> StartPosition(p)],
     is_in_check |-> [color \in Colors |-> FALSE],
     game_state |-> "UNFINISHED",
     turn_counter |-> 0]

----------------------------------------------------------------------------
(* GameBoard queries *)

get_occupied_spaces(g) == all_spaces \ g.available_spaces

(* Python list indexing: a negative index counts from the end of the list, *)
(* an index beyond either end raises IndexError.                           *)
InIndexRange(coord) ==
    /\ coord[1] >= -x_length /\ coord[1] < x_length
    /\ coord[2] >= -y_length /\ coord[2] < y_length

SpaceIndex(coord) ==
    <<IF coord[1] < 0 THEN coord[1] + x_length ELSE coord[1],
      IF coord[2] < 0 THEN coord[2] + y_length ELSE coord[2]>>

get_piece_at_coord(g, coord) ==
    IF InIndexRange(coord) THEN g.spaces[SpaceIndex(coord)] ELSE IndexError

----------------------------------------------------------------------------
(* Move ranges.  allied_spaces is the occupied-space set of the piece's    *)
(* own Player; occupancy of a cell is read from the board.                 *)

(* allied_spaces read from the opponent's Player *)
allied_spaces_of_opponent(g, p) == g.occupied_spaces[get_opponent_color(Color(p))]

allied_spaces(g, p) == g.occupied_spaces[Color(p)]

(* General.get_move_range *)
General_get_move_range(g, p) ==
    LET x_pos == g.position[p][1]
        y_pos == g.position[p][2]
        allied == allied_spaces(g, p)
    IN  IF g.position[p] \in palace_diagonals
        THEN {c \in (x_pos - 1 .. x_pos + 1) \X (y_pos - 1 .. y_pos + 1) :
                 c \in palace_spaces \ allied}
        ELSE {<<x_coord, y_pos>> : x_coord \in
                 {x \in x_pos - 1 .. x_pos + 1 : <<x, y_pos>> \in palace_spaces \ allied}}
             \cup
             {<<x_pos, y_coord>> : y_coord \in
                 {y \in y_pos - 1 .. y_pos + 1 : <<x_pos, y>> \in palace_spaces \ allied}}

(* Guard.get_move_range without the steps along the diagonals *)
Guard_get_move_range_orthogonal_only(g, p) ==
    LET x_pos == g.position[p][1]
        y_pos == g.position[p][2]
        allied == allied_spaces(g, p)
    IN  {<<x_coord, y_pos>> : x_coord \in
                 {x \in x_pos - 1 .. x_pos + 1 : <<x, y_pos>> \in palace_spaces \ allied}}
             \cup
             {<<x_pos, y_coord>> : y_coord \in
                 {y \in y_pos - 1 .. y_pos + 1 : <<x_pos, y>> \in palace_spaces \ allied}}

(* Guard.get_move_range *)
Guard_get_move_range(g, p) ==
    LET x_pos == g.position[p][1]
        y_pos == g.position[p][2]
        allied == allied_spaces(g, p)
    IN  IF g.position[p] \in palace_diagonals
        THEN {c \in (x_pos - 1 .. x_pos + 1) \X (y_pos - 1 .. y_pos + 1) :
                 c \in palace_spaces \ allied}
        ELSE {<<x_coord, y_pos>> : x_coord \in
                 {x \in x_pos - 1 .. x_pos + 1 : <<x, y_pos>> \in palace_spaces \ allied}}
             \cup
             {<<x_pos, y_coord>> : y_coord \in
                 {y \in y_pos - 1 .. y_pos + 1 : <<x_pos, y>> \in palace_spaces \ allied}}

(* Horse.get_move_range that leaps over a piece on the adjacent cell *)
Horse_get_move_range_unblocked(g, p) ==
    LET x_pos == g.position[p][1]
        y_pos == g.position[p][2]
        allied == allied_spaces(g, p)
        horizontal ==
            UNION {IF <<x_coord, y_pos>> \in all_spaces
                   THEN LET x_offset == IF x_coord < x_pos THEN -1 ELSE 1
                        IN  {<<x_coord + x_offset, y_coord>> : y_coord \in
                               {y \in {y_pos - 1, y_pos + 1} :
                                  <<x_coord + x_offset, y>> \in all_spaces \ allied}}
                   ELSE {} : x_coord \in {x_pos - 1, x_pos + 1}}
        vertical ==
            UNION {IF <<x_pos, y_coord>> \in all_spaces
                   THEN LET y_offset == IF y_coord < y_pos THEN -1 ELSE 1
                        IN  {<<x_coord, y_coord + y_offset>> : x_coord \in
                               {x \in {x_pos - 1, x_pos + 1} :
                                  <<x, y_coord + y_offset>> \in all_spaces \ allied}}
                   ELSE {} : y_coord \in {y_pos - 1, y_pos + 1}}
    IN  horizontal \cup vertical

(* Horse.get_move_range: one step orthogonally onto an empty cell, then    *)
(* one step diagonally outward.                                            *)
Horse_get_move_range(g, p) ==
    LET x_pos == g.position[p][1]
        y_pos == g.position[p][2]
        allied == allied_spaces(g, p)
        horizontal ==
            UNION {IF <<x_coord, y_pos>> \in all_spaces
                      /\ get_piece_at_coord(g, <<x_coord, y_pos>>) = None
                   THEN LET x_offset == IF x_coord < x_pos THEN -1 ELSE 1
                        IN  {<<x_coord + x_offset, y_coord>> : y_coord \in
                               {y \in {y_pos - 1, y_pos + 1} :
                                  <<x_coord + x_offset, y>> \in all_spaces \ allied}}
                   ELSE {} : x_coord \in {x_pos - 1, x_pos + 1}}
        vertical ==
            UNION {IF <<x_pos, y_coord>> \in all_spaces
                      /\ get_piece_at_coord(g, <<x_pos, y_coord>>) = None
                   THEN LET y_offset == IF y_coord < y_pos THEN -1 ELSE 1
                        IN  {<<x_coord, y_coord + y_offset>> : x_coord \in
                               {x \in {x_pos - 1, x_pos + 1} :
                                  <<x, y_coord + y_offset>> \in all_spaces \ allied}}
                   ELSE {} : y_coord \in {y_pos - 1, y_pos + 1}}
    IN  horizontal \cup vertical

(* Elephant.get_move_range: one step orthogonally onto an empty cell, one  *)
(* diagonal step onto an empty cell, then the landing squares.  The        *)
(* innermost loop of the source runs over both landing squares of the      *)
(* first step's side (range(y_pos - 2, y_pos + 3, 4)) whichever diagonal   *)
(* cell was found empty.                                                   *)
Elephant_get_move_range(g, p) ==
    LET x_pos == g.position[p][1]
        y_pos == g.position[p][2]
        allied == allied_spaces(g, p)
        horizontal ==
            UNION {IF <<x_coord, y_pos>> \in all_spaces
                      /\ get_piece_at_coord(g, <<x_coord, y_pos>>) = None
                   THEN LET x_offset == IF x_coord < x_pos THEN -1 ELSE 1
                            x_offset2 == IF x_coord < x_pos THEN -2 ELSE 2
                        IN  UNION {IF <<x_coord + x_offset, y_coord>> \in all_spaces
                                      /\ get_piece_at_coord(g, <<x_coord + x_offset, y_coord>>) = None
                                   THEN {<<x_coord + x_offset2, y2>> : y2 \in
                                           {y \in {y_pos - 2, y_pos + 2} :
                                              <<x_coord + x_offset2, y>> \in all_spaces \ allied}}
                                   ELSE {} : y_coord \in {y_pos - 1, y_pos + 1}}
                   ELSE {} : x_coord \in {x_pos - 1, x_pos + 1}}
        vertical ==
            UNION {IF <<x_pos, y_coord>> \in all_spaces
                      /\ get_piece_at_coord(g, <<x_pos, y_coord>>) = None
                   THEN LET y_offset == IF y_coord < y_pos THEN -1 ELSE 1
                            y_offset2 == IF y_coord < y_pos THEN -2 ELSE 2
                        IN  UNION {IF <<x_coord, y_coord + y_offset>> \in all_spaces
                                      /\ get_piece_at_coord(g, <<x_coord, y_coord + y_offset>>) = None
                                   THEN {<<x2, y_coord + y_offset2>> : x2 \in
                                           {x \in {x_pos - 2, x_pos + 2} :
                                              <<x, y_coord + y_offset2>> \in all_spaces \ allied}}
                                   ELSE {} : x_coord \in {x_pos - 1, x_pos + 1}}
                   ELSE {} : y_coord \in {y_pos - 1, y_pos + 1}}
    IN  horizontal \cup vertical

(* The four orthogonal directions in the order of the source's loops:      *)
(* west, east, north, south.                                               *)
Directions == {<<-1, 0>>, <<1, 0>>, <<0, -1>>, <<0, 1>>}

(* One of the Chariot's four orthogonal while loops: the cell at `offset`  *)
(* steps from the Chariot along direction d, and the cells after it.       *)
RECURSIVE Chariot_slide(_, _, _, _)
Chariot_slide(g, p, d, offset) ==
    LET coord == <<g.position[p][1] + offset * d[1], g.position[p][2] + offset * d[2]>>
    IN  IF coord \notin all_spaces THEN {}
        ELSE IF get_piece_at_coord(g, coord) # None
             THEN IF coord \notin allied_spaces(g, p) THEN {coord} ELSE {}
             ELSE {coord} \cup Chariot_slide(g, p, d, offset + 1)

(* The search for the Palace center around a diagonal point: the inner     *)
(* loop over y stops at its first match, the outer loop over x goes on,    *)
(* so the match of the last matching column is kept.                       *)
find_palace_center(pos) ==
    LET match(x_coord) ==
            {y_coord \in pos[2] - 1 .. pos[2] + 1 :
                /\ Abs(x_coord - pos[1]) = Abs(y_coord - pos[2])
                /\ <<x_coord, y_coord>> \in palace_diagonals
                /\ <<x_coord, y_coord>> # pos}
        columns == {x_coord \in pos[1] - 1 .. pos[1] + 1 : match(x_coord) # {}}
    IN  IF columns = {} THEN None
        ELSE <<Max(columns), Min(match(Max(columns)))>>

(* The Chariot's diagonal while loop from a Palace corner; both offsets    *)
(* are doubled after each empty cell (x_offset += x_offset).               *)
RECURSIVE Chariot_diagonal(_, _, _, _)
Chariot_diagonal(g, p, x_offset, y_offset) ==
    LET coord == <<g.position[p][1] + x_offset, g.position[p][2] + y_offset>>
    IN  IF coord \notin palace_diagonals THEN {}
        ELSE IF get_piece_at_coord(g, coord) # None
             THEN IF coord \notin allied_spaces(g, p) THEN {coord} ELSE {}
             ELSE {coord} \cup Chariot_diagonal(g, p, x_offset + x_offset, y_offset + y_offset)

(* Chariot.get_move_range without the diagonals of the Palace *)
Chariot_get_move_range_no_palace(g, p) ==
    LET x_pos == g.position[p][1]
        y_pos == g.position[p][2]
        allied == allied_spaces(g, p)
        orthogonal == UNION {Chariot_slide(g, p, d, 1) : d \in Directions}
        palace == {}
    IN  orthogonal \cup palace

(* Chariot.get_move_range without the loop to the south *)
Chariot_get_move_range_no_south(g, p) ==
    LET x_pos == g.position[p][1]
        y_pos == g.position[p][2]
        allied == allied_spaces(g, p)
        orthogonal == UNION {Chariot_slide(g, p, d, 1) : d \in Directions \ {<<0, 1>>}}
        palace ==
            IF g.position[p] \in palace_diagonals
            THEN IF x_pos = 4
                 THEN {c \in (x_pos - 1 .. x_pos + 1) \X (y_pos - 1 .. y_pos + 1) :
                         /\ Abs(c[1] - x_pos) = Abs(c[2] - y_pos)
                         /\ (get_piece_at_coord(g, c) = None \/ c \notin allied)}
                 ELSE LET palace_center == find_palace_center(g.position[p])
                          x_offset == IF palace_center[1] < x_pos THEN -1 ELSE 1
                          y_offset == IF palace_center[2] < y_pos THEN -1 ELSE 1
                      IN  Chariot_diagonal(g, p, x_offset, y_offset)
            ELSE {}
    IN  orthogonal \cup palace

(* Chariot.get_move_range *)
Chariot_get_move_range(g, p) ==
    LET x_pos == g.position[p][1]
        y_pos == g.position[p][2]
        allied == allied_spaces(g, p)
        orthogonal == UNION {Chariot_slide(g, p, d, 1) : d \in Directions}
        palace ==
            IF g.position[p] \in palace_diagonals
            THEN IF x_pos = 4
                 THEN {c \in (x_pos - 1 .. x_pos + 1) \X (y_pos - 1 .. y_pos + 1) :
                         /\ Abs(c[1] - x_pos) = Abs(c[2] - y_pos)
                         /\ (get_piece_at_coord(g, c) = None \/ c \notin allied)}
                 ELSE LET palace_center == find_palace_center(g.position[p])
                          x_offset == IF palace_center[1] < x_pos THEN -1 ELSE 1
                          y_offset == IF palace_center[2] < y_pos THEN -1 ELSE 1
                      IN  Chariot_diagonal(g, p, x_offset, y_offset)
            ELSE {}
    IN  orthogonal \cup palace

(* One of the Cannon's four orthogonal while loops, with the count of      *)
(* pieces met so far.                                                      *)
RECURSIVE Cannon_jump(_, _, _, _, _)
Cannon_jump(g, p, d, offset, pieces_between) ==
    LET coord == <<g.position[p][1] + offset * d[1], g.position[p][2] + offset * d[2]>>
        piece == get_piece_at_coord(g, coord)
    IN  IF coord \notin all_spaces THEN {}
        ELSE IF piece # None
             THEN IF pieces_between = 1 \/ Rank(piece) = "Cannon"
                  THEN IF coord \notin allied_spaces(g, p) /\ Rank(piece) # "Cannon"
                       THEN {coord} ELSE {}
                  ELSE Cannon_jump(g, p, d, offset + 1, pieces_between + 1)
             ELSE (IF pieces_between = 1 THEN {coord} ELSE {})
                  \cup Cannon_jump(g, p, d, offset + 1, pieces_between)

(* Cannon.get_move_range whose orthogonal loops start as if a screen had   *)
(* already been met                                                        *)
Cannon_get_move_range_no_screen(g, p) ==
    LET x_pos == g.position[p][1]
        y_pos == g.position[p][2]
        allied == allied_spaces(g, p)
        orthogonal == UNION {Cannon_jump(g, p, d, 1, 1) : d \in Directions}
        palace ==
            IF g.position[p] \in palace_diagonals
            THEN LET palace_center == find_palace_center(g.position[p])
                     piece_at_center == get_piece_at_coord(g, palace_center)
                     x_offset == IF palace_center[1] < x_pos THEN -2 ELSE 2
                     y_offset == IF palace_center[2] < y_pos THEN -2 ELSE 2
                 IN  IF piece_at_center # None /\ Rank(piece_at_center) # "Cannon"
                     THEN IF <<x_pos + x_offset, y_pos + y_offset>> \notin allied
                          THEN {<<x_pos + x_offset, y_pos + y_offset>>} ELSE {}
                     ELSE {}
            ELSE {}
    IN  orthogonal \cup palace

(* Cannon.get_move_range.  The diagonal leap is computed on every Palace   *)
(* diagonal point, the center included: its target is two steps beyond     *)
(* the point that find_palace_center returns, and is not tested against    *)
(* the set of all spaces.                                                  *)
Cannon_get_move_range(g, p) ==
    LET x_pos == g.position[p][1]
        y_pos == g.position[p][2]
        allied == allied_spaces(g, p)
        orthogonal == UNION {Cannon_jump(g, p, d, 1, 0) : d \in Directions}
        palace ==
            IF g.position[p] \in palace_diagonals
            THEN LET palace_center == find_palace_center(g.position[p])
                     piece_at_center == get_piece_at_coord(g, palace_center)
                     x_offset == IF palace_center[1] < x_pos THEN -2 ELSE 2
                     y_offset == IF palace_center[2] < y_pos THEN -2 ELSE 2
                 IN  IF piece_at_center # None /\ Rank(piece_at_center) # "Cannon"
                     THEN IF <<x_pos + x_offset, y_pos + y_offset>> \notin allied
                          THEN {<<x_pos + x_offset, y_pos + y_offset>>} ELSE {}
                     ELSE {}
            ELSE {}
    IN  orthogonal \cup palace

(* Soldier.get_move_range with a step backward as well as forward *)
Soldier_get_move_range_any_direction(g, p) ==
    LET x_pos == g.position[p][1]
        y_pos == g.position[p][2]
        allied == allied_spaces(g, p)
        y_offset == IF Color(p) = "blue" THEN -1 ELSE 1
        horizontal ==
            {<<x_coord, y_pos>> : x_coord \in
                {x \in x_pos - 1 .. x_pos + 1 : <<x, y_pos>> \in all_spaces \ allied}}
        forward ==
            {<<x_pos, y_coord>> : y_coord \in
                {y \in {y_pos - 1, y_pos + 1} : <<x_pos, y>> \in all_spaces \ allied}}
        palace ==
            IF g.position[p] \in palace_diagonals
            THEN {<<x_coord, y_pos + y_offset>> : x_coord \in
                    {x \in x_pos - 1 .. x_pos + 1 :
                        <<x, y_pos + y_offset>> \in palace_diagonals \ allied}}
            ELSE {}
    IN  horizontal \cup forward \cup palace

(* Soldier.get_move_range without the steps along the diagonals of a Palace *)
Soldier_get_move_range_no_palace(g, p) ==
    LET x_pos == g.position[p][1]
        y_pos == g.position[p][2]
        allied == allied_spaces(g, p)
        y_offset == IF Color(p) = "blue" THEN -1 ELSE 1
        horizontal ==
            {<<x_coord, y_pos>> : x_coord \in
                {x \in x_pos - 1 .. x_pos + 1 : <<x, y_pos>> \in all_spaces \ allied}}
        forward ==
            IF <<x_pos, y_pos + y_offset>> \in all_spaces \ allied
            THEN {<<x_pos, y_pos + y_offset>>} ELSE {}
        palace == {}
    IN  horizontal \cup forward \cup palace

(* Soldier.get_move_range with the forward directions of the two colors    *)
(* exchanged                                                               *)
Soldier_get_move_range_backward(g, p) ==
    LET x_pos == g.position[p][1]
        y_pos == g.position[p][2]
        allied == allied_spaces(g, p)
        y_offset == IF Color(p) = "blue" THEN 1 ELSE -1
        horizontal ==
            {<<x_coord, y_pos>> : x_coord \in
                {x \in x_pos - 1 .. x_pos + 1 : <<x, y_pos>> \in all_spaces \ allied}}
        forward ==
            IF <<x_pos, y_pos + y_offset>> \in all_spaces \ allied
            THEN {<<x_pos, y_pos + y_offset>>} ELSE {}
        palace ==
            IF g.position[p] \in palace_diagonals
            THEN {<<x_coord, y_pos + y_offset>> : x_coord \in
                    {x \in x_pos - 1 .. x_pos + 1 :
                        <<x, y_pos + y_offset>> \in palace_diagonals \ allied}}
            ELSE {}
    IN  horizontal \cup forward \cup palace

(* Soldier.get_move_range *)
Soldier_get_move_range(g, p) ==
    LET x_pos == g.position[p][1]
        y_pos == g.position[p][2]
        allied == allied_spaces(g, p)
        y_offset == IF Color(p) = "blue" THEN -1 ELSE 1
        horizontal ==
            {<<x_coord, y_pos>> : x_coord \in
                {x \in x_pos - 1 .. x_pos + 1 : <<x, y_pos>> \in all_spaces \ allied}}
        forward ==
            IF <<x_pos, y_pos + y_offset>> \in all_spaces \ allied
            THEN {<<x_pos, y_pos + y_offset>>} ELSE {}
        palace ==
            IF g.position[p] \in palace_diagonals
            THEN {<<x_coord, y_pos + y_offset>> : x_coord \in
                    {x \in x_pos - 1 .. x_pos + 1 :
                        <<x, y_pos + y_offset>> \in palace_diagonals \ allied}}
            ELSE {}
    IN  horizontal \cup forward \cup palace

(* piece.get_move_range(board), dispatched on the class of the piece *)
get_move_range(g, p) ==
    CASE Rank(p) = "General"  -> General_get_move_range(g, p)
      [] Rank(p) = "Guard"    -> Guard_get_move_range(g, p)
      [] Rank(p) = "Horse"    -> Horse_get_move_range(g, p)
      [] Rank(p) = "Elephant" -> Elephant_get_move_range(g, p)
      [] Rank(p) = "Chariot"  -> Chariot_get_move_range(g, p)
      [] Rank(p) = "Cannon"   -> Cannon_get_move_range(g, p)
      [] Rank(p) = "Soldier"  -> Soldier_get_move_range(g, p)

----------------------------------------------------------------------------
(* Player *)

get_pieces(g, color) == g.pieces[color]

get_general(g, color) == g.pieces[color][1]

(* Player.get_threat_range: the union of the move ranges of the roster *)
get_threat_range(g, color) ==
    UNION {get_move_range(g, p) : p \in SeqToSet(get_pieces(g, color))}

----------------------------------------------------------------------------
(* Mutators.  Each yields the game after the call and the exception the    *)
(* call raised, if any; Then runs the next call unless one was raised.     *)

NoError == "none"

Ok(g) == [err |-> NoError, g |-> g]

Raise(name, g) == [err |-> name, g |-> g]

Then(r, F(_)) == IF r.err # NoError THEN r ELSE F(r.g)

(* GameBoard.place_piece: set.remove raises KeyError on a missing element *)
GameBoard_place_piece(g, coord, piece) ==
    IF ~InIndexRange(coord) THEN Raise("IndexError", g)
    ELSE LET placed == [g EXCEPT !.spaces[SpaceIndex(coord)] = piece]
         IN  IF coord \notin g.available_spaces THEN Raise("KeyError", placed)
             ELSE Ok([placed EXCEPT !.available_spaces = @ \ {coord}])

(* GameBoard.remove_piece with the two coordinates of the cell swapped     *)
(* when the cell is given back to the available set.                       *)
GameBoard_remove_piece_transposed(g, coord) ==
    IF ~InIndexRange(coord) THEN Raise("IndexError", g)
    ELSE Ok([g EXCEPT !.spaces[SpaceIndex(coord)] = None,
                      !.available_spaces = @ \cup {<<coord[2], coord[1]>>}])

(* GameBoard.remove_piece *)
GameBoard_remove_piece(g, coord) ==
    IF ~InIndexRange(coord) THEN Raise("IndexError", g)
    ELSE Ok([g EXCEPT !.spaces[SpaceIndex(coord)] = None,
                      !.available_spaces = @ \cup {coord}])

(* Player.remove_piece that leaves the roster as it was *)
Player_remove_piece_kept(g, color, piece) ==
    IF piece \notin SeqToSet(g.pieces[color]) THEN Raise("ValueError", g)
    ELSE Ok(g)

(* Player.remove_piece: list.remove raises ValueError on a missing element *)
Player_remove_piece(g, color, piece) ==
    IF piece \notin SeqToSet(g.pieces[color]) THEN Raise("ValueError", g)
    ELSE Ok([g EXCEPT !.pieces[color] = RemoveFromSeq(@, piece)])

(* Player.remove_occupied_space that leaves the coordinate in the set *)
remove_occupied_space_kept(g, color, coord) == Ok(g)

(* Player.remove_occupied_space *)
remove_occupied_space(g, color, coord) ==
    IF coord \notin g.occupied_spaces[color] THEN Raise("KeyError", g)
    ELSE Ok([g EXCEPT !.occupied_spaces[color] = @ \ {coord}])

(* Player.add_occupied_space that leaves the set as it was *)
add_occupied_space_ignored(g, color, coord) == Ok(g)

(* Player.add_occupied_space *)
add_occupied_space(g, color, coord) ==
    Ok([g EXCEPT !.occupied_spaces[color] = @ \cup {coord}])

(* BoardPiece.set_position that leaves the recorded position as it was *)
set_position_ignored(g, piece, coord) == Ok(g)

(* BoardPiece.set_position *)
set_position(g, piece, coord) == Ok([g EXCEPT !.position[piece] = coord])

(* Player.get_is_in_check: the flag is read from the first roster entry,   *)
(* and only a General has one.                                             *)
get_is_in_check(g, color) ==
    IF Len(g.pieces[color]) = 0 THEN "IndexError"
    ELSE IF Rank(get_general(g, color)) # "General" THEN "AttributeError"
    ELSE IF g.is_in_check[color] THEN "True" ELSE "False"

(* Player.set_is_in_check *)
set_is_in_check(g, color, bool_val) ==
    IF Len(g.pieces[color]) = 0 THEN Raise("IndexError", g)
    ELSE IF Rank(get_general(g, color)) # "General" THEN Raise("AttributeError", g)
    ELSE Ok([g EXCEPT !.is_in_check[color] = bool_val])

(* JanggiGame.update_board, on the live game or on a copy; the players     *)
(* are the owner of player_piece and that owner's opponent.                *)
update_board(g, player_piece, opponent_piece, start_position, end_position) ==
    LET player == Color(player_piece)
        opponent == get_opponent_color(player)
        capture(g0) ==
            IF opponent_piece # None
            THEN LET remove_from_roster(g1) == Player_remove_piece(g1, opponent, opponent_piece)
                     remove_space(g1) == remove_occupied_space(g1, opponent, end_position)
                 IN  Then(Then(GameBoard_remove_piece(g0, end_position),
                               remove_from_roster), remove_space)
            ELSE Ok(g0)
        lift(g1) == GameBoard_remove_piece(g1, start_position)
        place(g1) == GameBoard_place_piece(g1, end_position, player_piece)
        reposition(g1) == set_position(g1, player_piece, end_position)
        leave(g1) == remove_occupied_space(g1, player, start_position)
        enter(g1) == add_occupied_space(g1, player, end_position)
    IN  Then(Then(Then(Then(Then(capture(g), lift), place), reposition), leave), enter)

(* move_leaves_player_in_check that never finds the Player in check *)
move_leaves_player_in_check_never(test_game, test_start_position, test_end_position) ==
    "False"

(* JanggiGame.move_leaves_player_in_check on test_game, a copy of the      *)
(* game: "True", "False", or the exception the simulated update raised.    *)
move_leaves_player_in_check(test_game, test_start_position, test_end_position) ==
    LET test_player_piece == get_piece_at_coord(test_game, test_start_position)
        test_player == Color(test_player_piece)
        test_opponent == get_opponent_color(test_player)
        test_opponent_piece == get_piece_at_coord(test_game, test_end_position)
    IN  IF test_opponent_piece = IndexError THEN "IndexError"
        ELSE LET r == update_board(test_game, test_player_piece, test_opponent_piece,
                                   test_start_position, test_end_position)
             IN  IF r.err # NoError THEN r.err
                 ELSE IF Len(r.g.pieces[test_player]) = 0 THEN "IndexError"
                 ELSE IF r.g.position[get_general(r.g, test_player)]
                            \in get_threat_range(r.g, test_opponent)
                      THEN "True" ELSE "False"

(* JanggiGame.verify_checkmate from roster entry i on.  The roster is      *)
(* walked in list order; the moves of one piece are walked in the          *)
(* iteration order of a Python set, which the source does not fix, so      *)
(* among the moves of one piece any escape or any raising simulation may   *)
(* be the first one met.  The result is the set of possible outcomes.      *)
RECURSIVE verify_checkmate_from(_, _, _)
verify_checkmate_from(g, color, i) ==
    IF i > Len(g.pieces[color]) THEN {"True"}
    ELSE LET piece == g.pieces[color][i]
             outcomes == {move_leaves_player_in_check(g, g.position[piece], move) :
                             move \in get_move_range(g, piece)}
         IN  IF outcomes \subseteq {"True"}
             THEN verify_checkmate_from(g, color, i + 1)
             ELSE outcomes \ {"True"}

(* verify_checkmate that simulates the moves of the General only *)
verify_checkmate_general_only(g, color) ==
    LET outcomes == {move_leaves_player_in_check(g, g.position[get_general(g, color)], move) :
                        move \in get_move_range(g, get_general(g, color))}
    IN  IF outcomes \subseteq {"True"} THEN {"True"} ELSE outcomes \ {"True"}

verify_checkmate(g, color) == verify_checkmate_from(g, color, 1)

----------------------------------------------------------------------------
(* JanggiGame.make_move.  A call ends by returning "True" or "False" or by *)
(* raising; Return pairs the outcome with the live game the call leaves.   *)

Return(ret, g) == [ret |-> ret, g |-> g]

is_finished(g) == g.game_state # "UNFINISHED"

(* The turn with the parity of the counter read the other way round *)
turn_flipped(g) == IF g.turn_counter % 2 = 0 THEN "red" ELSE "blue"

turn(g) == IF g.turn_counter % 2 = 0 THEN "blue" ELSE "red"

increment_turn_counter(g) == [g EXCEPT !.turn_counter = @ + 1]

(* The win state built from the color without upper() *)
won_state_not_upper(color) == IF color = "blue" THEN "blue_WON" ELSE "red_WON"

won_state(color) == IF color = "blue" THEN "BLUE_WON" ELSE "RED_WON"

(* A pass that counts the turn before it looks at the check flag *)
pass_turn_counted_first(g, player) ==
    LET in_check == get_is_in_check(g, player)
    IN  IF in_check = "True" THEN Return("False", increment_turn_counter(g))
        ELSE IF in_check = "False" THEN Return("True", increment_turn_counter(g))
        ELSE Return(in_check, g)

(* A pass that counts the turn twice *)
pass_turn_counted_twice(g, player) ==
    LET in_check == get_is_in_check(g, player)
    IN  IF in_check = "True" THEN Return("False", g)
        ELSE IF in_check = "False"
             THEN Return("True", increment_turn_counter(increment_turn_counter(g)))
        ELSE Return(in_check, g)

(* The Player passes the turn (start_position = end_position) *)
pass_turn(g, player) ==
    LET in_check == get_is_in_check(g, player)
    IN  IF in_check = "True" THEN Return("False", g)
        ELSE IF in_check = "False" THEN Return("True", increment_turn_counter(g))
        ELSE Return(in_check, g)

(* Clearing the mover's flag after the board was updated *)
clear_own_check(g, player) ==
    LET in_check == get_is_in_check(g, player)
    IN  IF in_check = "True" THEN set_is_in_check(g, player, FALSE)
        ELSE IF in_check = "False" THEN Ok(g)
        ELSE Raise(in_check, g)

(* The check and checkmate test on the opponent, then the turn counter:    *)
(* the possible ends of an accepted move on the updated game g.            *)
test_opponent_in_check(g, player, opponent) ==
    IF Len(g.pieces[opponent]) = 0 THEN {Return("IndexError", g)}
    ELSE IF g.position[get_general(g, opponent)] \in get_threat_range(g, player)
    THEN LET flagged == set_is_in_check(g, opponent, TRUE)
         IN  IF flagged.err # NoError THEN {Return(flagged.err, flagged.g)}
             ELSE {IF outcome = "True"
                   THEN Return("True", increment_turn_counter(
                            [flagged.g EXCEPT !.game_state = won_state(player)]))
                   ELSE IF outcome = "False"
                   THEN Return("True", increment_turn_counter(flagged.g))
                   ELSE Return(outcome, flagged.g)
                   : outcome \in verify_checkmate(flagged.g, opponent)}
    ELSE {Return("True", increment_turn_counter(g))}

(* The part of make_move after every criterion of a legal move was met *)
commit_move(g, player_piece, opponent_piece, start_position, end_position) ==
    LET player == Color(player_piece)
        opponent == get_opponent_color(player)
        updated == update_board(g, player_piece, opponent_piece,
                                start_position, end_position)
        clear(g1) == clear_own_check(g1, player)
        cleared == Then(updated, clear)
    IN  IF cleared.err # NoError THEN {Return(cleared.err, cleared.g)}
        ELSE test_opponent_in_check(cleared.g, player, opponent)

make_move(g, start_position, end_position) ==
    IF is_finished(g) THEN {Return("False", g)}
    ELSE IF start_position \notin get_occupied_spaces(g) THEN {Return("False", g)}
    ELSE LET player_piece == get_piece_at_coord(g, start_position)
             player == Color(player_piece)
             opponent_piece == get_piece_at_coord(g, end_position)
         IN  IF player # turn(g) THEN {Return("False", g)}
             ELSE IF start_position = end_position THEN {pass_turn(g, player)}
             ELSE IF end_position \notin get_move_range(g, player_piece)
                  THEN {Return("False", g)}
             ELSE LET leaves_in_check ==
                          move_leaves_player_in_check(g, start_position, end_position)
                  IN  IF leaves_in_check = "True" THEN {Return("False", g)}
                      ELSE IF leaves_in_check # "False" THEN {Return(leaves_in_check, g)}
                      ELSE commit_move(g, player_piece, opponent_piece,
                                       start_position, end_position)

----------------------------------------------------------------------------
(* The calls explored: make_move with each of these (from, to) pairs, in   *)
(* any order, from the new game on.  They hold a line of play to a         *)
(* checkmate of Red, a line to a check of Blue and its escape, a line to   *)
(* a Red Cannon on its Palace center, and the two passes.                  *)

BlueInputs ==
    {<<<<2, 9>>, <<3, 7>>>>,   \* Horse c10-d8
     <<<<1, 7>>, <<6, 7>>>>,   \* Cannon b8-g8 over the Horse
     <<<<6, 6>>, <<5, 6>>>>,   \* Soldier g7-f7
     <<<<6, 7>>, <<6, 0>>>>,   \* Cannon g8xg1 over the Soldier g4
     <<<<4, 8>>, <<3, 8>>>>,   \* General e9-d9
     <<<<6, 0>>, <<4, 0>>>>,   \* Cannon g1xe1 over the Guard f1
     <<<<8, 9>>, <<8, 9>>>>}   \* pass

RedInputs ==
    {<<<<4, 1>>, <<4, 0>>>>,   \* General e2-e1
     <<<<8, 0>>, <<8, 1>>>>,   \* Chariot i1-i2
     <<<<8, 1>>, <<5, 1>>>>,   \* Chariot i2-f2
     <<<<3, 0>>, <<4, 1>>>>,   \* Guard d1-e2
     <<<<2, 0>>, <<3, 2>>>>,   \* Horse c1-d3
     <<<<1, 2>>, <<4, 2>>>>,   \* Cannon b3-e3 over the Horse
     <<<<4, 2>>, <<4, 4>>>>,   \* Cannon e3-e5 over the Soldier e4
     <<<<4, 4>>, <<4, 1>>>>,   \* Cannon e5-e2 over the Soldier e4
     <<<<5, 1>>, <<5, 1>>>>}   \* pass

MoveInputs == BlueInputs \cup RedInputs

NoCall == [start |-> <<0, 0>>, end |-> <<0, 0>>, ret |-> "none"]

Init ==
    /\ spaces = NewGame.spaces
    /\ available_spaces = NewGame.available_spaces
    /\ pieces = NewGame.pieces
    /\ occupied_spaces = NewGame.occupied_spaces
    /\ position = NewGame.position
    /\ is_in_check = NewGame.is_in_check
    /\ game_state = NewGame.game_state
    /\ turn_counter = NewGame.turn_counter
    /\ call = NoCall

(* One call of make_move on the live game *)
Call(start_position, end_position) ==
    \E r \in make_move(self, start_position, end_position) :
          /\ spaces' = r.g.spaces
          /\ available_spaces' = r.g.available_spaces
          /\ pieces' = r.g.pieces
          /\ occupied_spaces' = r.g.occupied_spaces
          /\ position' = r.g.position
          /\ is_in_check' = r.g.is_in_check
          /\ game_state' = r.g.game_state
          /\ turn_counter' = r.g.turn_counter
          /\ call' = [start |-> start_position, end |-> end_position, ret |-> r.ret]

MakeMove(start_position, end_position) ==
    /\ turn_counter < MaxTurns
    /\ Call(start_position, end_position)

Next == \E m \in MoveInputs : MakeMove(m[1], m[2])

Spec == Init /\ [][Next]_vars

----------------------------------------------------------------------------
(* A second set of calls from the new game on: the first moves of the      *)
(* Soldier on a7 and of the Chariot on a10, the lines that bring a Blue    *)
(* Cannon to the corner d3 of Red's Palace and a Red Cannon to the         *)
(* opposite corner f1, and the line that puts a Blue Cannon on c8, next to *)
(* the path of the Elephant on b10.                                        *)

OpeningBlueInputs ==
    {<<<<0, 6>>, <<0, 5>>>>,   \* Soldier a7-a6
     <<<<0, 5>>, <<0, 4>>>>,   \* Soldier a6-a5
     <<<<0, 9>>, <<4, 4>>>>,   \* Chariot a10-e5
     <<<<7, 9>>, <<6, 7>>>>,   \* Horse h10-g8
     <<<<7, 7>>, <<3, 7>>>>,   \* Cannon h8-d8 over the Horse
     <<<<7, 7>>, <<2, 7>>>>,   \* Cannon h8-c8 over the Horse
     <<<<2, 6>>, <<3, 6>>>>,   \* Soldier c7-d7
     <<<<3, 7>>, <<3, 2>>>>,   \* Cannon d8-d3 over the Soldier
     <<<<3, 2>>, <<5, 0>>>>,   \* Cannon d3-f1 over the General e2
     <<<<1, 9>>, <<3, 6>>>>}   \* Elephant b10-d7

OpeningRedInputs ==
    {<<<<7, 0>>, <<6, 2>>>>,   \* Horse h1-g3
     <<<<7, 2>>, <<5, 2>>>>,   \* Cannon h3-f3 over the Horse
     <<<<5, 0>>, <<5, 1>>>>,   \* Guard f1-f2
     <<<<5, 2>>, <<5, 0>>>>,   \* Cannon f3-f1 over the Guard
     <<<<0, 0>>, <<0, 0>>>>}   \* pass

OpeningInputs == OpeningBlueInputs \cup OpeningRedInputs

OpeningMove(start_position, end_position) ==
    /\ turn_counter < MaxOpeningTurns
    /\ Call(start_position, end_position)

NextOpening == \E m \in OpeningInputs : OpeningMove(m[1], m[2])

SpecOpening == Init /\ [][NextOpening]_vars

----------------------------------------------------------------------------
(* Positions late in a game, for the move ranges of the sliding and the    *)
(* jumping pieces: the two Generals on their starting cells and up to      *)
(* MaxDrawn Chariots and Cannons of both colors on the cells of two        *)
(* crossing lines, the row y = 5 up to the east edge and the column x = 6. *)
(* Every other piece was captured.  Each get_move_range is applied by the  *)
(* make_move calls between the cells of the lines.                         *)

DrawnPieces == {9, 10, 11, 25, 27}

DrawnCells ==
    {<<5, 5>>, <<6, 5>>, <<7, 5>>, <<8, 5>>,
     <<6, 3>>, <<6, 4>>, <<6, 6>>, <<6, 7>>}

(* The placements: which of the drawn pieces are left, and where they are *)
Placements ==
    UNION {{f \in [S -> DrawnCells] : \A p, q \in S : p # q => f[p] # f[q]} :
              S \in {T \in SUBSET DrawnPieces : Cardinality(T) \in 1 .. MaxDrawn}}

(* The turn counter of a drawn position: an even count, Blue is on turn *)
ProbeStartTurn == 2 * Cardinality(PieceIds)

(* The game with the Generals and the pieces of placement f on the board;  *)
(* the rosters keep the creation order of the pieces that are left.        *)
PositionOf(f) ==
    LET placed == DOMAIN f \cup {get_general(NewGame, color) : color \in Colors}
        pos(p) == IF p \in DOMAIN f THEN f[p] ELSE StartPosition(p)
    IN  [spaces |-> [c \in all_spaces |->
                        IF \E p \in placed : pos(p) = c
                        THEN CHOOSE p \in placed : pos(p) = c
                        ELSE None],
         available_spaces |-> all_spaces \ {pos(p) : p \in placed},
         pieces |-> [color \in Colors |->
                        SelectSeq(StartRoster(color), LAMBDA p : p \in placed)],
         occupied_spaces |-> [color \in Colors |->
                                {pos(p) : p \in {q \in placed : Color(q) = color}}],
         position |-> [p \in PieceIds |-> pos(p)],
         is_in_check |-> [color \in Colors |-> FALSE],
         game_state |-> "UNFINISHED",
         turn_counter |-> ProbeStartTurn]

InitDrawn ==
    \E f \in Placements :
        /\ spaces = PositionOf(f).spaces
        /\ available_spaces = PositionOf(f).available_spaces
        /\ pieces = PositionOf(f).pieces
        /\ occupied_spaces = PositionOf(f).occupied_spaces
        /\ position = PositionOf(f).position
        /\ is_in_check = PositionOf(f).is_in_check
        /\ game_state = PositionOf(f).game_state
        /\ turn_counter = PositionOf(f).turn_counter
        /\ call = NoCall

(* The calls made on a drawn position: along the row or the column, to the *)
(* crossing of the two lines or to the cell on the east edge               *)
ProbeTargets == {<<6, 5>>, <<8, 5>>}

ProbeInputs ==
    {m \in DrawnCells \X ProbeTargets : m[1][1] = m[2][1] \/ m[1][2] = m[2][2]}

ProbeMove(start_position, end_position) ==
    /\ turn_counter < ProbeStartTurn + MaxProbeTurns
    /\ Call(start_position, end_position)

NextDrawn == \E m \in ProbeInputs : ProbeMove(m[1], m[2])

SpecDrawn == InitDrawn /\ [][NextDrawn]_vars

----------------------------------------------------------------------------
(* Positions late in a game around a Palace, for the Palace rules: the     *)
(* defending General on the center, an edge or a corner of its Palace, the *)
(* other General on its starting cell, and up to MaxDrawn of a defending   *)
(* Guard, a defending Chariot, an attacking Chariot and an attacking       *)
(* Soldier on the cells of the Palace and the cell in front of it.  The    *)
(* positions around Red's Palace are drawn, those around Blue's Palace are *)
(* their mirror images with the colors exchanged.  Blue is on turn; a      *)
(* position in which Red's General is threatened cannot follow a move of   *)
(* Red and is left out, and Blue's flag is set as Red's last move set it.  *)

PalacePieces == {9, 13, 18, 25}

PalaceCells == ((3 .. 5) \X (0 .. 2)) \cup {<<4, 3>>}

PalaceGeneralCells == {<<4, 1>>, <<4, 0>>, <<3, 0>>}

(* Generals and Guards are drawn inside the Palace only *)
PalacePlacements ==
    UNION {{f \in [S \cup {get_general(NewGame, "red")} -> PalaceCells] :
               /\ f[get_general(NewGame, "red")] \in PalaceGeneralCells
               /\ \A p \in S : Rank(p) = "Guard" => f[p] \in palace_spaces
               /\ \A p, q \in DOMAIN f : p # q => f[p] # f[q]} :
              S \in {T \in SUBSET PalacePieces : Cardinality(T) <= MaxDrawn}}

MirrorCell(coord) == <<coord[1], y_length - 1 - coord[2]>>

MirrorPiece(p) == IF p <= 16 THEN p + 16 ELSE p - 16

Mirrored(f) ==
    [p \in {MirrorPiece(q) : q \in DOMAIN f} |-> MirrorCell(f[MirrorPiece(p)])]

InitPalace ==
    \E f \in PalacePlacements \cup {Mirrored(h) : h \in PalacePlacements} :
        LET g == PositionOf(f)
            threatened(color) ==
                g.position[get_general(g, color)]
                    \in get_threat_range(g, get_opponent_color(color))
        IN  /\ ~threatened("red")
            /\ spaces = g.spaces
            /\ available_spaces = g.available_spaces
            /\ pieces = g.pieces
            /\ occupied_spaces = g.occupied_spaces
            /\ position = g.position
            /\ is_in_check = [g.is_in_check EXCEPT !["blue"] = threatened("blue")]
            /\ game_state = g.game_state
            /\ turn_counter = g.turn_counter
            /\ call = NoCall

(* The calls made on a position around a Palace, each with a piece on its  *)
(* first cell: the steps along the diagonals of Red's Palace, a step onto  *)
(* its center from the back and a step into it from the front, and their   *)
(* mirror images in Blue's Palace                                          *)
PalaceProbeInputs ==
    LET red_palace == {<<<<3, 0>>, <<4, 1>>>>, <<<<3, 2>>, <<4, 1>>>>,
                       <<<<3, 0>>, <<5, 2>>>>, <<<<4, 1>>, <<5, 0>>>>,
                       <<<<4, 0>>, <<4, 1>>>>, <<<<4, 3>>, <<4, 2>>>>}
    IN  red_palace \cup {<<MirrorCell(m[1]), MirrorCell(m[2])>> : m \in red_palace}

ProbeOccupied(start_position, end_position) ==
    /\ turn_counter < ProbeStartTurn + MaxProbeTurns
    /\ spaces[start_position] # None
    /\ Call(start_position, end_position)

NextPalace == \E m \in PalaceProbeInputs : ProbeOccupied(m[1], m[2])

SpecPalace == InitPalace /\ [][NextPalace]_vars

----------------------------------------------------------------------------
(* Positions late in a game around a Horse, for its leaps: a Blue Horse on *)
(* an open cell or on the east edge, the Generals on their starting cells, *)
(* and up to MaxDrawn of a Blue and a Red Chariot on the cells next to the *)
(* Horse and on its landing squares.  Blue is on turn, and the positions   *)
(* that cannot follow a move of Red are left out as around the Palaces.    *)

DrawnHorse == 5

HorseCompany == {9, 25}

HorseStands == {<<6, 5>>, <<8, 5>>}

(* The cells one orthogonal step from a cell, and the cells a leap away *)
HorseReach(coord) ==
    {c \in all_spaces :
        Abs(c[1] - coord[1]) + Abs(c[2] - coord[2]) \in {1, 3}
        /\ Abs(c[1] - coord[1]) <= 2 /\ Abs(c[2] - coord[2]) <= 2}

HorsePlacements ==
    UNION {{f \in [S \cup {DrawnHorse} -> {stand} \cup HorseReach(stand)] :
               /\ f[DrawnHorse] = stand
               /\ \A p, q \in DOMAIN f : p # q => f[p] # f[q]} :
              S \in {T \in SUBSET HorseCompany : Cardinality(T) <= MaxDrawn},
              stand \in HorseStands}

InitHorse ==
    \E f \in HorsePlacements :
        LET g == PositionOf(f)
            threatened(color) ==
                g.position[get_general(g, color)]
                    \in get_threat_range(g, get_opponent_color(color))
        IN  /\ ~threatened("red")
            /\ spaces = g.spaces
            /\ available_spaces = g.available_spaces
            /\ pieces = g.pieces
            /\ occupied_spaces = g.occupied_spaces
            /\ position = g.position
            /\ is_in_check = [g.is_in_check EXCEPT !["blue"] = threatened("blue")]
            /\ game_state = g.game_state
            /\ turn_counter = g.turn_counter
            /\ call = NoCall

(* The calls made on a position around a Horse: from its cell to each cell *)
(* a leap away                                                             *)
HorseProbeInputs ==
    {m \in HorseStands \X all_spaces :
        m[2] \in HorseReach(m[1])
        /\ Abs(m[2][1] - m[1][1]) + Abs(m[2][2] - m[1][2]) = 3}

NextHorse == \E m \in HorseProbeInputs : ProbeOccupied(m[1], m[2])

SpecHorse == InitHorse /\ [][NextHorse]_vars

----------------------------------------------------------------------------
(* Notions the claims are stated in *)

WonStates == {"BLUE_WON", "RED_WON"}

Accepted == call.ret = "True"

Rejected == call.ret = "False"

IsPass == call.start = call.end

(* The color that made the last accepted call: its piece stands on call.end *)
Mover == Color(spaces[call.end])

(* The General of `color` stands in the threat range of the other color *)
GeneralThreatened(g, color) ==
    g.position[get_general(g, color)] \in get_threat_range(g, get_opponent_color(color))

(* The game after the piece on `from` was moved to `to`, capturing there *)
BoardAfter(g, from, to) ==
    update_board(g, get_piece_at_coord(g, from), get_piece_at_coord(g, to), from, to).g

(* Every move of every live piece of `color` leaves its General threatened *)
NoEscape(g, color) ==
    \A p \in SeqToSet(g.pieces[color]) :
        \A to \in get_move_range(g, p) :
            GeneralThreatened(BoardAfter(g, g.position[p], to), color)

(* The conditions under which the specification has make_move accept *)
LegalCall(g, from, to) ==
    /\ g.game_state = "UNFINISHED"
    /\ g.spaces[from] # None
    /\ Color(g.spaces[from]) = (IF g.turn_counter % 2 = 0 THEN "blue" ELSE "red")
    /\ \/ from = to /\ ~g.is_in_check[Color(g.spaces[from])]
       \/ /\ from # to
          /\ to \in get_move_range(g, g.spaces[from])
          /\ ~GeneralThreatened(BoardAfter(g, from, to), Color(g.spaces[from]))

----------------------------------------------------------------------------
(* C1: after every accepted make_move with from # to, the mover's General  *)
(* is not in the threat range of the opponent on the updated board.        *)
C1_NoSelfCheckCommitted ==
    (Accepted /\ ~IsPass) => ~GeneralThreatened(self, Mover)

(* An accepted move of a General off a cell the opponent threatens *)
C1_Witness ==
    /\ Accepted /\ ~IsPass
    /\ Rank(spaces[call.end]) = "General"
    /\ call.start \in get_threat_range(self, get_opponent_color(Mover))

(* C2: make_move returns true exactly when the game is unfinished, from    *)
(* holds a piece of the color on turn, and the call is a pass out of check *)
(* or a move inside the piece's range that leaves the mover's General      *)
(* unthreatened; in every other case it returns false.                     *)
C2_ReturnsTrueExactlyWhenLegal ==
    [][/\ (call'.ret = "True") <=> LegalCall(self, call'.start, call'.end)
       /\ call'.ret # "True" => call'.ret = "False"]_vars

(* C3: a make_move that returns false leaves the live game unchanged.      *)
C3_RejectionChangesNothing ==
    [][call'.ret = "False" => UNCHANGED gamevars]_vars

(* A move inside the piece's range, by the color on turn, was rejected:    *)
(* it would have left the mover's General threatened.                      *)
C3_Witness ==
    /\ Rejected /\ ~IsPass
    /\ game_state = "UNFINISHED"
    /\ spaces[call.start] # None
    /\ Color(spaces[call.start]) = turn(self)
    /\ call.end \in get_move_range(self, spaces[call.start])
    /\ GeneralThreatened(BoardAfter(self, call.start, call.end), turn(self))

(* C4: the game state starts UNFINISHED, changes only from UNFINISHED to a *)
(* win state, and in a win state every make_move returns false and         *)
(* changes nothing.                                                        *)
C4_WinIsAbsorbing ==
    /\ game_state = "UNFINISHED"
    /\ [][/\ game_state' # game_state =>
                game_state = "UNFINISHED" /\ game_state' \in WonStates
          /\ game_state \in WonStates =>
                call'.ret = "False" /\ UNCHANGED gamevars]_vars

(* A call made in a won game *)
C4_Witness == game_state \in WonStates /\ Rejected

(* C5: the counter starts at 0; an accepted call is made with a piece of   *)
(* the color of the counter's parity and adds one to the counter; no other *)
(* call changes the counter; a call with a piece of the other color is     *)
(* rejected.                                                               *)
C5_TurnsAlternate ==
    /\ turn_counter = 0
    /\ [][LET piece == spaces[call'.start]
              on_turn == IF turn_counter % 2 = 0 THEN "blue" ELSE "red"
          IN  /\ call'.ret = "True" =>
                    /\ turn_counter' = turn_counter + 1
                    /\ piece # None /\ Color(piece) = on_turn
              /\ call'.ret # "True" => turn_counter' = turn_counter
              /\ (piece # None /\ Color(piece) # on_turn) => call'.ret = "False"]_vars

(* A piece of the color not on turn was moved inside its range, in a game  *)
(* under way, and the call was rejected.                                   *)
C5_Witness ==
    /\ Rejected /\ ~IsPass
    /\ game_state = "UNFINISHED" /\ turn_counter > 0
    /\ spaces[call.start] # None
    /\ Color(spaces[call.start]) # turn(self)
    /\ call.end \in get_move_range(self, spaces[call.start])

(* C6: in an unfinished game a pass with a piece of the color on turn      *)
(* succeeds if and only if that Player is not in check, and is rejected if *)
(* the Player is in check.                                                 *)
C6_PassIffNotInCheck ==
    [][LET piece == spaces[call'.start]
       IN  (/\ game_state = "UNFINISHED"
            /\ call'.start = call'.end
            /\ piece # None
            /\ Color(piece) = turn(self))
           => /\ (call'.ret = "True") <=> ~is_in_check[Color(piece)]
              /\ is_in_check[Color(piece)] => call'.ret = "False"]_vars

(* C7: a successful pass adds one to the turn counter and changes nothing  *)
(* else.                                                                   *)
C7_PassChangesOnlyCounter ==
    [][(call'.ret = "True" /\ call'.start = call'.end) =>
          /\ turn_counter' = turn_counter + 1
          /\ UNCHANGED <<spaces, available_spaces, pieces, occupied_spaces,
                         position, is_in_check, game_state>>]_vars

(* A pass was accepted after pieces had been moved and captured *)
C7_Witness ==
    /\ Accepted /\ IsPass
    /\ Len(pieces["red"]) < 16

(* C8: after an accepted non-pass move the game is won by the mover if and *)
(* only if the opponent's General is threatened on the updated board and   *)
(* no single move of a live opponent piece ends the threat; otherwise the  *)
(* game stays unfinished.                                                  *)
C8_CheckmateIffNoEscape ==
    (Accepted /\ ~IsPass) =>
        LET opponent == get_opponent_color(Mover)
        IN  /\ game_state \in {"UNFINISHED", won_state(Mover)}
            /\ (game_state = won_state(Mover)) <=>
                   (GeneralThreatened(self, opponent) /\ NoEscape(self, opponent))

(* A move that checkmated *)
C8_Witness ==
    /\ Accepted /\ ~IsPass
    /\ game_state = won_state(Mover)

(* A move that gave check and left an escape *)
C8_WitnessCheckOnly ==
    /\ Accepted /\ ~IsPass
    /\ game_state = "UNFINISHED"
    /\ GeneralThreatened(self, get_opponent_color(Mover))

(* C9: the occupied set and the available set of the board partition the   *)
(* set of all coordinates.                                                 *)
C9_OccupiedAvailablePartition ==
    /\ get_occupied_spaces(self) \cup available_spaces = all_spaces
    /\ get_occupied_spaces(self) \cap available_spaces = {}

(* A board on which a piece was captured *)
C9_Witness ==
    /\ Accepted /\ ~IsPass
    /\ Cardinality(available_spaces) > Cardinality(NewGame.available_spaces)

(* C10: each Player's occupied-space set is the set of the positions of    *)
(* the pieces in that Player's roster.                                     *)
C10_OccupiedIsRosterPositions ==
    \A color \in Colors :
        occupied_spaces[color] = {position[p] : p \in SeqToSet(pieces[color])}

(* A Player lost a piece on the cell the capturing piece now stands on *)
C10_Witness ==
    /\ Accepted /\ ~IsPass
    /\ \E p \in PieceIds :
          /\ p \notin SeqToSet(pieces[Color(p)])
          /\ position[p] = call.end

----------------------------------------------------------------------------
(* The cells of the live board that hold a piece of a color and a rank *)
CellsOf(color, rank) ==
    {c \in all_spaces :
        spaces[c] # None /\ Color(spaces[c]) = color /\ Rank(spaces[c]) = rank}

(* C11: the game as constructed, before any call, has the canonical        *)
(* layout: Blue's General on (4,8), Guards on (3,9) and (5,9), Horses on   *)
(* (2,9) and (7,9), Elephants on (1,9) and (6,9), Chariots on (0,9) and    *)
(* (8,9), Cannons on (1,7) and (7,7), Soldiers on the even columns of row  *)
(* 6; Red's pieces mirrored on rows 0 to 3; every other cell is empty;     *)
(* every piece stands on the cell it records; the state is UNFINISHED, the *)
(* counter is 0 and neither Player is in check.                            *)
C11_NewGameIsCanonical ==
    call = NoCall =>
        /\ CellsOf("blue", "General") = {<<4, 8>>}
        /\ CellsOf("blue", "Guard") = {<<3, 9>>, <<5, 9>>}
        /\ CellsOf("blue", "Horse") = {<<2, 9>>, <<7, 9>>}
        /\ CellsOf("blue", "Elephant") = {<<1, 9>>, <<6, 9>>}
        /\ CellsOf("blue", "Chariot") = {<<0, 9>>, <<8, 9>>}
        /\ CellsOf("blue", "Cannon") = {<<1, 7>>, <<7, 7>>}
        /\ CellsOf("blue", "Soldier") = {<<0, 6>>, <<2, 6>>, <<4, 6>>, <<6, 6>>, <<8, 6>>}
        /\ CellsOf("red", "General") = {<<4, 1>>}
        /\ CellsOf("red", "Guard") = {<<3, 0>>, <<5, 0>>}
        /\ CellsOf("red", "Horse") = {<<2, 0>>, <<7, 0>>}
        /\ CellsOf("red", "Elephant") = {<<1, 0>>, <<6, 0>>}
        /\ CellsOf("red", "Chariot") = {<<0, 0>>, <<8, 0>>}
        /\ CellsOf("red", "Cannon") = {<<1, 2>>, <<7, 2>>}
        /\ CellsOf("red", "Soldier") = {<<0, 3>>, <<2, 3>>, <<4, 3>>, <<6, 3>>, <<8, 3>>}
        /\ Cardinality(get_occupied_spaces(self)) = 32
        /\ \A color \in Colors :
              /\ Len(pieces[color]) = 16
              /\ \A p \in SeqToSet(pieces[color]) :
                    Color(p) = color /\ spaces[position[p]] = p
              /\ ~is_in_check[color]
        /\ game_state = "UNFINISHED"
        /\ turn_counter = 0

(* The constructed game, with its first call still to be made *)
C11_Witness ==
    /\ call = NoCall
    /\ spaces[<<4, 8>>] = get_general(self, "blue")
    /\ spaces[<<4, 1>>] = get_general(self, "red")

(* C12: from the new game, make_move of the Blue Soldier from (0,6) to     *)
(* (0,5) returns true and leaves the counter at 1 and neither Player in    *)
(* check; right after it, make_move from (0,5) to (0,4), Blue's piece on   *)
(* Red's turn, returns false; and make_move of the Chariot from (0,9) to   *)
(* (4,4), before or after that first move, returns false.                  *)
C12_OpeningTrace ==
    [][LET new_game == call = NoCall
           after_first == turn_counter = 1 /\ position[12] = <<0, 5>>
       IN  /\ (new_game /\ call'.start = <<0, 6>> /\ call'.end = <<0, 5>>) =>
                 /\ call'.ret = "True"
                 /\ turn_counter' = 1
                 /\ ~is_in_check'["blue"] /\ ~is_in_check'["red"]
                 /\ spaces'[<<0, 5>>] = 12 /\ spaces'[<<0, 6>>] = None
           /\ (after_first /\ call'.start = <<0, 5>> /\ call'.end = <<0, 4>>) =>
                 call'.ret = "False"
           /\ ((new_game \/ after_first)
                  /\ call'.start = <<0, 9>> /\ call'.end = <<4, 4>>) =>
                 call'.ret = "False"]_vars

(* The Soldier stands on (0,5) after one accepted call, and the call to    *)
(* move it on to (0,4) was just rejected.                                  *)
C12_Witness ==
    /\ turn_counter = 1 /\ position[12] = <<0, 5>> /\ spaces[<<0, 5>>] = 12
    /\ call = [start |-> <<0, 5>>, end |-> <<0, 4>>, ret |-> "False"]

----------------------------------------------------------------------------
(* Notions of the claims about move ranges *)

(* The pieces in the two rosters *)
LivePieces == SeqToSet(pieces["blue"]) \cup SeqToSet(pieces["red"])

LiveOfRank(rank) == {p \in LivePieces : Rank(p) = rank}

(* The cell holds a piece of the given rank, or a piece of the color *)
HoldsRank(c, rank) == c \in all_spaces /\ spaces[c] # None /\ Rank(spaces[c]) = rank

HoldsColor(c, color) == c \in all_spaces /\ spaces[c] # None /\ Color(spaces[c]) = color

Occupied(c) == c \in all_spaces /\ spaces[c] # None

(* The destinations of p that lie on a diagonal through its position *)
DiagonalDestinations(p) ==
    {c \in get_move_range(self, p) :
        /\ c # position[p]
        /\ Abs(c[1] - position[p][1]) = Abs(c[2] - position[p][2])}

(* The cells of the board in direction d from p, nearest first *)
RayCell(p, d, n) == <<position[p][1] + n * d[1], position[p][2] + n * d[2]>>

RayLength(p, d) == Cardinality({n \in 1 .. 9 : RayCell(p, d, n) \in all_spaces})

(* The distances of the occupied cells of the ray, and the nearest and the *)
(* second nearest of them (0 when there is none)                           *)
RayOccupied(p, d) == {n \in 1 .. RayLength(p, d) : Occupied(RayCell(p, d, n))}

FirstOccupied(p, d) == IF RayOccupied(p, d) = {} THEN 0 ELSE Min(RayOccupied(p, d))

SecondOccupied(p, d) ==
    IF Cardinality(RayOccupied(p, d)) < 2 THEN 0
    ELSE Min(RayOccupied(p, d) \ {FirstOccupied(p, d)})

(* C13: no destination of a Cannon is a cell occupied by a Cannon of       *)
(* either color, on an orthogonal jump or on the Palace diagonal leap.     *)
C13_CannonNeverTakesCannon ==
    \A p \in LiveOfRank("Cannon") :
        \A c \in get_move_range(self, p) : ~HoldsRank(c, "Cannon")

(* C14: in a direction whose first occupied cell holds a Cannon, a Cannon  *)
(* has no destination; a Cannon in a Palace whose center holds a Cannon    *)
(* has no diagonal destination.                                            *)
C14_CannonNeverScreensOnCannon ==
    \A p \in LiveOfRank("Cannon") :
        /\ \A d \in Directions :
              (FirstOccupied(p, d) # 0
                 /\ HoldsRank(RayCell(p, d, FirstOccupied(p, d)), "Cannon"))
              => \A n \in 1 .. RayLength(p, d) :
                    RayCell(p, d, n) \notin get_move_range(self, p)
        /\ \A center \in {<<4, 1>>, <<4, 8>>} :
              (/\ Abs(position[p][1] - center[1]) <= 1
               /\ Abs(position[p][2] - center[2]) <= 1
               /\ HoldsRank(center, "Cannon"))
              => DiagonalDestinations(p) = {}

(* C15: every destination of every piece lies on the 9x10 grid.            *)
C15_DestinationsOnBoard ==
    \A p \in LivePieces : get_move_range(self, p) \subseteq all_spaces

(* C16: no destination of a piece is a cell occupied by a piece of its own *)
(* color, its own cell included.                                           *)
C16_NoOwnColorDestination ==
    \A p \in LivePieces :
        \A c \in get_move_range(self, p) :
            c # position[p] /\ ~HoldsColor(c, Color(p))

(* A Soldier was moved next to a piece of its own color: the neighbor's    *)
(* cell is one step sideways and is not a destination.                     *)
C16_Witness ==
    /\ Accepted /\ ~IsPass
    /\ Rank(spaces[call.end]) = "Soldier"
    /\ \E x_offset \in {-1, 1} :
          HoldsColor(<<call.end[1] + x_offset, call.end[2]>>, Mover)

(* The landing squares of an Elephant on `pos`, each with the two cells of *)
(* its own path: the first orthogonal cell and the diagonal cell after it. *)
ElephantPaths(pos) ==
    {[landing |-> <<pos[1] + 3 * sx, pos[2] + 2 * sy>>,
      first   |-> <<pos[1] + sx, pos[2]>>,
      second  |-> <<pos[1] + 2 * sx, pos[2] + sy>>] : sx \in {-1, 1}, sy \in {-1, 1}}
    \cup
    {[landing |-> <<pos[1] + 2 * sx, pos[2] + 3 * sy>>,
      first   |-> <<pos[1], pos[2] + sy>>,
      second  |-> <<pos[1] + sx, pos[2] + 2 * sy>>] : sx \in {-1, 1}, sy \in {-1, 1}}

(* C17: the destinations of an Elephant are exactly the landing squares    *)
(* that are on the board, whose own two path cells are both empty, and     *)
(* that hold no piece of the Elephant's color.                             *)
C17_ElephantBlockedOnOwnPath ==
    \A p \in LiveOfRank("Elephant") :
        get_move_range(self, p) =
            {path.landing : path \in
                {q \in ElephantPaths(position[p]) :
                    /\ q.landing \in all_spaces
                    /\ ~Occupied(q.first) /\ ~Occupied(q.second)
                    /\ ~HoldsColor(q.landing, Color(p))}}

PalaceCorners == {3, 5} \X {0, 2, 7, 9}

(* The center of the Palace of a corner, and the corner opposite to it *)
CenterOf(corner) == <<4, IF corner[2] <= 2 THEN 1 ELSE 8>>

OppositeCorner(corner) ==
    <<2 * CenterOf(corner)[1] - corner[1], 2 * CenterOf(corner)[2] - corner[2]>>

(* C18: a Cannon on a Palace corner has the opposite corner as its only    *)
(* diagonal destination, and has it exactly when the center holds a piece  *)
(* that is no Cannon and the opposite corner is empty or holds an enemy;   *)
(* a Cannon on any other cell has no diagonal destination.                 *)
C18_CannonLeapsFromCornersOnly ==
    \A p \in LiveOfRank("Cannon") :
        IF position[p] \in PalaceCorners
        THEN DiagonalDestinations(p) =
                IF /\ Occupied(CenterOf(position[p]))
                   /\ ~HoldsRank(CenterOf(position[p]), "Cannon")
                   /\ ~HoldsColor(OppositeCorner(position[p]), Color(p))
                THEN {OppositeCorner(position[p])}
                ELSE {}
        ELSE DiagonalDestinations(p) = {}

(* The cells strictly between two cells of one row or one column *)
Between(a, b) ==
    {c \in all_spaces :
        \/ /\ a[2] = b[2] /\ c[2] = a[2]
           /\ Min({a[1], b[1]}) < c[1] /\ c[1] < Max({a[1], b[1]})
        \/ /\ a[1] = b[1] /\ c[1] = a[1]
           /\ Min({a[2], b[2]}) < c[2] /\ c[2] < Max({a[2], b[2]})}

(* C19: in each orthogonal direction from a Cannon, a cell is a            *)
(* destination exactly when the first occupied cell of the direction holds *)
(* a piece that is no Cannon (the screen) and the cell either lies after   *)
(* the screen and before the next occupied cell, or is that next occupied  *)
(* cell and holds an enemy piece that is no Cannon.  No cell before the    *)
(* screen, no cell beyond the second occupied cell, and no cell of a       *)
(* direction without a screen is a destination.                            *)
C19_CannonOrthogonalRule ==
    \A p \in LiveOfRank("Cannon") :
        \A d \in Directions :
            LET first == FirstOccupied(p, d)
                second == SecondOccupied(p, d)
                destinations == get_move_range(self, p)
            IN  \A n \in 1 .. RayLength(p, d) :
                    RayCell(p, d, n) \in destinations
                    <=> /\ first # 0
                        /\ ~HoldsRank(RayCell(p, d, first), "Cannon")
                        /\ \/ n > first /\ (second = 0 \/ n < second)
                           \/ /\ n = second
                              /\ HoldsColor(RayCell(p, d, n), get_opponent_color(Color(p)))
                              /\ ~HoldsRank(RayCell(p, d, n), "Cannon")

(* A Cannon was moved over exactly one piece, a screen that is no Cannon,  *)
(* and from its new cell it has a screen with an enemy piece behind it.    *)
C19_Witness ==
    /\ Accepted /\ ~IsPass
    /\ HoldsRank(call.end, "Cannon")
    /\ Cardinality({c \in Between(call.start, call.end) : Occupied(c)}) = 1
    /\ \A c \in Between(call.start, call.end) : ~HoldsRank(c, "Cannon")
    /\ \E d \in Directions :
          LET p == spaces[call.end]
          IN  /\ SecondOccupied(p, d) # 0
              /\ ~HoldsRank(RayCell(p, d, FirstOccupied(p, d)), "Cannon")
              /\ RayCell(p, d, SecondOccupied(p, d)) \in get_move_range(self, p)

(* C20: in each orthogonal direction from a Chariot, a cell is a           *)
(* destination exactly when it lies before the first occupied cell of the  *)
(* direction, or is that first occupied cell and holds an enemy piece.     *)
C20_ChariotOrthogonalRule ==
    \A p \in LiveOfRank("Chariot") :
        \A d \in Directions :
            LET first == FirstOccupied(p, d)
                destinations == get_move_range(self, p)
            IN  \A n \in 1 .. RayLength(p, d) :
                    RayCell(p, d, n) \in destinations
                    <=> \/ first = 0
                        \/ n < first
                        \/ n = first /\ HoldsColor(RayCell(p, d, n), get_opponent_color(Color(p)))

(* A Chariot slid over empty cells, and from its new cell one direction    *)
(* ends on a piece of its own color and another on an enemy piece.         *)
C20_Witness ==
    /\ Accepted /\ ~IsPass
    /\ HoldsRank(call.end, "Chariot")
    /\ Between(call.start, call.end) # {}
    /\ LET p == spaces[call.end]
       IN  /\ \E d \in Directions :
                 /\ FirstOccupied(p, d) # 0
                 /\ HoldsColor(RayCell(p, d, FirstOccupied(p, d)), Color(p))
           /\ \E d \in Directions :
                 /\ FirstOccupied(p, d) # 0
                 /\ HoldsColor(RayCell(p, d, FirstOccupied(p, d)), get_opponent_color(Color(p)))

----------------------------------------------------------------------------
(* C26: each roster holds exactly one General, its own, as first entry.    *)
C26_OneGeneralFirstInRoster ==
    \A color \in Colors :
        /\ Len(pieces[color]) >= 1
        /\ Rank(pieces[color][1]) = "General" /\ Color(pieces[color][1]) = color
        /\ Cardinality({p \in SeqToSet(pieces[color]) : Rank(p) = "General"}) = 1

(* C27: an accepted call with from # to puts the moved piece on `to`,      *)
(* empties `from`, records `to` as the piece's position, moves the cell    *)
(* from `from` to `to` in the mover's occupied set; a piece that stood on  *)
(* `to` leaves the opponent's roster and `to` leaves the opponent's        *)
(* occupied set; no other cell, position or roster entry changes.          *)
C27_AcceptedMoveFrame ==
    [][(call'.ret = "True" /\ call'.start # call'.end) =>
          LET from == call'.start
              to == call'.end
              piece == spaces[from]
              captured == spaces[to]
              mover == Color(piece)
              opponent == get_opponent_color(mover)
          IN  /\ piece # None
              /\ captured # None => Color(captured) = opponent
              /\ spaces' = [spaces EXCEPT ![from] = None, ![to] = piece]
              /\ available_spaces' = (available_spaces \cup {from}) \ {to}
              /\ position' = [position EXCEPT ![piece] = to]
              /\ occupied_spaces'[mover] = (occupied_spaces[mover] \ {from}) \cup {to}
              /\ occupied_spaces'[opponent] =
                    IF captured # None THEN occupied_spaces[opponent] \ {to}
                    ELSE occupied_spaces[opponent]
              /\ pieces'[mover] = pieces[mover]
              /\ pieces'[opponent] =
                    IF captured # None THEN RemoveFromSeq(pieces[opponent], captured)
                    ELSE pieces[opponent]]_vars

(* A capture that gave check was accepted: the checkmate evaluation ran    *)
(* its simulations before the call returned.                               *)
C27_Witness ==
    /\ Accepted /\ ~IsPass
    /\ \E p \in PieceIds : p \notin LivePieces /\ position[p] = call.end
    /\ is_in_check[get_opponent_color(Mover)]
    /\ game_state = "UNFINISHED"

(* C28: an accepted call leaves the caller's flag false; the Player not on *)
(* turn is never flagged; a flag is cleared only by an accepted call with  *)
(* from # to of the flagged Player.                                        *)
C28_MoverNeverFlagged ==
    /\ [](~is_in_check[get_opponent_color(turn(self))])
    /\ [][/\ call'.ret = "True" => ~is_in_check'[Color(spaces[call'.start])]
          /\ \A color \in Colors :
                (is_in_check[color] /\ ~is_in_check'[color]) =>
                    /\ call'.ret = "True" /\ call'.start # call'.end
                    /\ Color(spaces[call'.start]) = color]_vars

(* C29: a Player's flag is true exactly when its General stands in the     *)
(* threat range of the other Player on the live board.                     *)
C29_FlagIsAccurate ==
    \A color \in Colors :
        is_in_check[color] <=>
            position[get_general(NewGame, color)]
                \in get_threat_range(self, get_opponent_color(color))

(* C30: a roster only loses pieces; an accepted call with from # to takes  *)
(* nothing from the mover's roster and from the opponent's roster exactly  *)
(* the piece that stood on `to`; a pass and a rejected call take nothing;  *)
(* a piece outside the rosters stands on no cell.                          *)
C30_NoResurrection ==
    /\ [](\A c \in all_spaces : spaces[c] # None => spaces[c] \in LivePieces)
    /\ [][/\ \A color \in Colors : SeqToSet(pieces'[color]) \subseteq SeqToSet(pieces[color])
          /\ (call'.ret = "True" /\ call'.start # call'.end) =>
                LET mover == Color(spaces[call'.start])
                    opponent == get_opponent_color(mover)
                IN  /\ pieces'[mover] = pieces[mover]
                    /\ SeqToSet(pieces[opponent]) \ SeqToSet(pieces'[opponent])
                          = {spaces[call'.end]} \ {None}
          /\ (call'.ret = "False" \/ (call'.ret = "True" /\ call'.start = call'.end)) =>
                pieces' = pieces]_vars

(* A pass was accepted and a call was rejected after a capture: the        *)
(* captured piece is in no roster and on no cell.                          *)
C30_Witness ==
    /\ call.ret \in {"True", "False"}
    /\ IsPass \/ Rejected
    /\ \E p \in PieceIds :
          /\ p \notin LivePieces
          /\ \A c \in all_spaces : spaces[c] # p

----------------------------------------------------------------------------
(* Notions of the claims about the Palaces *)

PalaceCenters == {<<4, 1>>, <<4, 8>>}

(* The diagonal points of the Palaces: the corners and the centers *)
DiagonalPoints == PalaceCorners \cup PalaceCenters

(* The nine cells of the Palace a cell belongs to *)
PalaceAround(coord) ==
    IF coord[2] <= 2 THEN (3 .. 5) \X (0 .. 2) ELSE (3 .. 5) \X (7 .. 9)

(* The cells one step away, along the lines or along the diagonals *)
OrthogonalNeighbors(coord) ==
    {<<coord[1] - 1, coord[2]>>, <<coord[1] + 1, coord[2]>>,
     <<coord[1], coord[2] - 1>>, <<coord[1], coord[2] + 1>>}

DiagonalNeighbors(coord) ==
    {<<coord[1] + sx, coord[2] + sy>> : sx \in {-1, 1}, sy \in {-1, 1}}

(* C21: a Chariot on a Palace center has as diagonal destinations exactly  *)
(* the four corners that hold no piece of its color; a Chariot on a corner *)
(* has the center unless it holds a piece of its color, and the opposite   *)
(* corner exactly when the center is empty and the opposite corner holds   *)
(* no piece of its color; a Chariot on any other cell has no diagonal      *)
(* destination.                                                            *)
C21_ChariotPalaceRule ==
    \A p \in LiveOfRank("Chariot") :
        LET pos == position[p]
        IN  DiagonalDestinations(p) =
                IF pos \in PalaceCenters
                THEN {c \in DiagonalNeighbors(pos) : ~HoldsColor(c, Color(p))}
                ELSE IF pos \in PalaceCorners
                THEN {c \in {CenterOf(pos)} : ~HoldsColor(c, Color(p))}
                     \cup {c \in {OppositeCorner(pos)} :
                               ~Occupied(CenterOf(pos)) /\ ~HoldsColor(c, Color(p))}
                ELSE {}

(* A Chariot was moved from a corner of a Palace to the opposite corner *)
C21_Witness ==
    /\ Accepted /\ ~IsPass
    /\ HoldsRank(call.end, "Chariot")
    /\ call.start \in PalaceCorners
    /\ call.end = OppositeCorner(call.start)

(* C23: the destinations of a General or a Guard are, from a diagonal      *)
(* point of the Palace, exactly the adjacent cells of its Palace that hold *)
(* no piece of its color, and from any other point of the Palace exactly   *)
(* the orthogonally adjacent ones; the piece stands in the Palace of its   *)
(* color in every state.                                                   *)
C23_GeneralGuardPalaceRule ==
    \A p \in LiveOfRank("General") \cup LiveOfRank("Guard") :
        LET pos == position[p]
            steps == IF pos \in DiagonalPoints
                     THEN OrthogonalNeighbors(pos) \cup DiagonalNeighbors(pos)
                     ELSE OrthogonalNeighbors(pos)
        IN  /\ pos \in (3 .. 5) \X (IF Color(p) = "blue" THEN 7 .. 9 ELSE 0 .. 2)
            /\ get_move_range(self, p) =
                  {c \in steps \cap PalaceAround(pos) : ~HoldsColor(c, Color(p))}

(* A General or a Guard was moved one step along a diagonal of its Palace, *)
(* next to a piece of its own color                                        *)
C23_Witness ==
    /\ Accepted /\ ~IsPass
    /\ HoldsRank(call.end, "General") \/ HoldsRank(call.end, "Guard")
    /\ call.end \in DiagonalNeighbors(call.start)
    /\ \E c \in OrthogonalNeighbors(call.end) \cup DiagonalNeighbors(call.end) :
          HoldsColor(c, Mover)

(* The row one step forward of a Soldier of the color *)
Forward(color) == IF color = "blue" THEN -1 ELSE 1

(* C24: every destination of a Soldier lies in its row or in the row one   *)
(* step forward, and no call moves a Soldier to a row behind it: a Blue    *)
(* Soldier's row never increases, a Red Soldier's row never decreases.     *)
C24_SoldierNeverBackward ==
    /\ [](\A p \in LiveOfRank("Soldier") :
            \A c \in get_move_range(self, p) :
                c[2] \in {position[p][2], position[p][2] + Forward(Color(p))})
    /\ [][\A p \in PieceIds :
            Rank(p) = "Soldier" =>
                IF Color(p) = "blue" THEN position'[p][2] <= position[p][2]
                ELSE position'[p][2] >= position[p][2]]_vars

(* A Soldier was moved one step straight forward *)
C24_Witness ==
    /\ Accepted /\ ~IsPass
    /\ HoldsRank(call.end, "Soldier")
    /\ call.end = <<call.start[1], call.start[2] + Forward(Mover)>>

(* C25: the destinations of a Soldier are exactly the left, right and      *)
(* forward neighbors that are on the board and hold no piece of its color, *)
(* and, for a Soldier on a diagonal point of a Palace, the two cells       *)
(* diagonally forward that are diagonal points and hold no piece of its    *)
(* color.                                                                  *)
C25_SoldierRule ==
    \A p \in LiveOfRank("Soldier") :
        LET pos == position[p]
            row == pos[2] + Forward(Color(p))
            straight == {<<pos[1] - 1, pos[2]>>, <<pos[1] + 1, pos[2]>>, <<pos[1], row>>}
            diagonal == IF pos \in DiagonalPoints
                        THEN {<<pos[1] - 1, row>>, <<pos[1] + 1, row>>} \cap DiagonalPoints
                        ELSE {}
        IN  get_move_range(self, p) =
                {c \in (straight \cap all_spaces) \cup diagonal : ~HoldsColor(c, Color(p))}

(* A Soldier was moved diagonally forward inside a Palace *)
C25_Witness ==
    /\ Accepted /\ ~IsPass
    /\ HoldsRank(call.end, "Soldier")
    /\ call.end[1] # call.start[1]
    /\ call.end[2] = call.start[2] + Forward(Mover)

(* The landing squares of a Horse on `pos` that leaps in direction d: two  *)
(* steps along d and one step to either side                               *)
HorseLandings(pos, d) ==
    {<<pos[1] + 2 * d[1] + side * d[2], pos[2] + 2 * d[2] + side * d[1]>> :
        side \in {-1, 1}}

(* C22: the destinations of a Horse are exactly, for each orthogonal       *)
(* direction whose adjacent cell is on the board and empty, the two        *)
(* landing squares of that direction that are on the board and hold no     *)
(* piece of its color.                                                     *)
C22_HorseRule ==
    \A p \in LiveOfRank("Horse") :
        LET pos == position[p]
            open == {d \in Directions :
                        /\ <<pos[1] + d[1], pos[2] + d[2]>> \in all_spaces
                        /\ ~Occupied(<<pos[1] + d[1], pos[2] + d[2]>>)}
        IN  get_move_range(self, p) =
                {c \in UNION {HorseLandings(pos, d) : d \in open} :
                    c \in all_spaces /\ ~HoldsColor(c, Color(p))}

(* A Horse was moved onto a landing square that held an enemy Chariot,     *)
(* from a cell on which one direction was closed by the piece of its own   *)
(* color that still stands next to that cell.                              *)
C22_Witness ==
    /\ Accepted /\ ~IsPass
    /\ HoldsRank(call.end, "Horse")
    /\ \E p \in PieceIds : p \notin LivePieces /\ Rank(p) = "Chariot" /\ position[p] = call.end
    /\ \E d \in Directions : HoldsColor(<<call.start[1] + d[1], call.start[2] + d[2]>>, Mover)

----------------------------------------------------------------------------
(* C31: every call of make_move with two coordinates on the board          *)
(* completes and returns a boolean; no call ends by raising an error.      *)
C31_MakeMoveReturnsBoolean ==
    (call # NoCall /\ call.start \in all_spaces /\ call.end \in all_spaces)
        => call.ret \in {"True", "False"}

(* C32: the board and the two Players agree: a cell holds a piece exactly  *)
(* when that piece is in the roster of its color and its position is that  *)
(* cell, no two pieces in the rosters have the same position, the two      *)
(* occupied-space sets are disjoint, and their union is the occupied set   *)
(* of the board, the complement of its available set.                      *)
C32_BoardAndPlayersAgree ==
    /\ \A c \in all_spaces :
          spaces[c] # None => (spaces[c] \in LivePieces /\ position[spaces[c]] = c)
    /\ \A p \in LivePieces : position[p] \in all_spaces /\ spaces[position[p]] = p
    /\ \A p, q \in LivePieces : p # q => position[p] # position[q]
    /\ occupied_spaces["blue"] \cap occupied_spaces["red"] = {}
    /\ occupied_spaces["blue"] \cup occupied_spaces["red"] = all_spaces \ available_spaces

(* A capture was made: the capturing piece stands on the cell of the call, *)
(* which its Player's set gained and the opponent's set lost, and the cell *)
(* it left is empty and available                                          *)
C32_Witness ==
    /\ Accepted /\ ~IsPass
    /\ \E p \in PieceIds : p \notin LivePieces /\ position[p] = call.end
    /\ HoldsColor(call.end, Mover)
    /\ call.end \in occupied_spaces[Mover]
    /\ call.end \notin occupied_spaces[get_opponent_color(Mover)]
    /\ spaces[call.start] = None /\ call.start \in available_spaces

(* C33: the Palace coordinates are the 18 cells of columns 3..5 in rows    *)
(* 0..2 and rows 7..9, the diagonal points are the four corners and the    *)
(* center of each zone, and the four edge midpoints of each zone are not   *)
(* diagonal points: in every state of a game a General or a Guard on an    *)
(* edge midpoint has orthogonal destinations only.                         *)
C33_PalaceGeometry ==
    /\ palace_spaces = {c \in all_spaces : c[1] \in 3 .. 5 /\ c[2] \in (0 .. 2) \cup (7 .. 9)}
    /\ Cardinality(palace_spaces) = 18
    /\ palace_diagonals = {<<3, 0>>, <<5, 0>>, <<4, 1>>, <<3, 2>>, <<5, 2>>,
                           <<3, 7>>, <<5, 7>>, <<4, 8>>, <<3, 9>>, <<5, 9>>}
    /\ {<<4, 0>>, <<3, 1>>, <<5, 1>>, <<4, 2>>,
        <<4, 7>>, <<3, 8>>, <<5, 8>>, <<4, 9>>} \cap palace_diagonals = {}
    /\ \A p \in LiveOfRank("General") \cup LiveOfRank("Guard") :
          position[p] \in palace_spaces \ palace_diagonals
              => \A c \in get_move_range(self, p) :
                     c[1] = position[p][1] \/ c[2] = position[p][2]

(* A piece was moved from one diagonal point of a Palace to another along  *)
(* a diagonal while a General stood on an edge midpoint of its Palace      *)
C33_Witness ==
    /\ Accepted /\ ~IsPass
    /\ call.start \in palace_diagonals /\ call.end \in palace_diagonals
    /\ call.start[1] # call.end[1] /\ call.start[2] # call.end[2]
    /\ \E c \in palace_spaces \ palace_diagonals : HoldsRank(c, "General")

(* The coordinates asked of the board: the grid and a band around it as    *)
(* wide as the grid itself                                                 *)
AskedCoords == ((-2 * x_length) .. (2 * x_length)) \X ((-2 * y_length) .. (2 * y_length))

(* C34: get_piece_at_coord fails with an out-of-bounds error for every     *)
(* coordinate outside the grid, a negative column or row included, and     *)
(* returns the occupant of the cell, or none, for a coordinate inside it.  *)
C34_PieceAtFailsOutsideGrid ==
    \A coord \in AskedCoords :
        IF coord \in all_spaces
        THEN get_piece_at_coord(self, coord) = spaces[coord]
        ELSE get_piece_at_coord(self, coord) = IndexError

====
